---- MODULE Spec2Model ----
(***************************************************************************)
(* The annotation session state of reflex_railway_deployment/state.py:     *)
(* the fields video_url, video_error, current_time and fps, the event      *)
(* handlers set_video_url, update_progress and set_fps, and the computed   *)
(* var current_frame; and, next to them, the annotation form the page     *)
(* pages/index.py binds to State: the mode switch, the form fields and the *)
(* list of annotations.                                                    *)
(*                                                                         *)
(* Python strings that the code inspects character by character (the URL,  *)
(* the FPS text) are sequences of one-character strings; the fixed error   *)
(* messages are TLA+ strings.  Floats are exact multiples of               *)
(* 1/TicksPerSecond second.                                                *)
(***************************************************************************)
EXTENDS Integers, Sequences, FiniteSets, TLC

VARIABLES video_url, video_error, current_time, fps, event,
          is_natural_language_mode, form, annotations

\* the annotation form and the annotations
form_vars == <<is_natural_language_mode, form, annotations>>

vars == <<video_url, video_error, current_time, fps, event, form_vars>>

----------------------------------------------------------------------------
(* Bounds of the model *)

\* playedSeconds ranges over -MaxTicks..MaxTicks ticks
MaxTicks == 1
\* a tick is 1/TicksPerSecond second
TicksPerSecond == 4
\* the FPS text holds at most MaxDigits digits
MaxDigits == 2
\* add_annotations is called while fewer than MaxAnnotations are recorded
MaxAnnotations == 2

----------------------------------------------------------------------------
(* Characters and strings *)

UpperLetters ==
  <<"A","B","C","D","E","F","G","H","I","J","K","L","M",
    "N","O","P","Q","R","S","T","U","V","W","X","Y","Z">>

LowerLetters ==
  <<"a","b","c","d","e","f","g","h","i","j","k","l","m",
    "n","o","p","q","r","s","t","u","v","w","x","y","z">>

Digits == <<"0","1","2","3","4","5","6","7","8","9">>

Range(s) == {s[i] : i \in 1..Len(s)}

\* str.lower() on one ASCII character
LowerChar(c) ==
  IF c \in Range(UpperLetters)
    THEN LowerLetters[CHOOSE i \in 1..Len(UpperLetters) : UpperLetters[i] = c]
    ELSE c

\* str.lower()
Lower(s) == [i \in 1..Len(s) |-> LowerChar(s[i])]

\* str.endswith(suffix)
EndsWith(s, suffix) ==
  /\ Len(suffix) <= Len(s)
  /\ SubSeq(s, Len(s) - Len(suffix) + 1, Len(s)) = suffix

\* str.find(c, start) with 1-based positions: 0 when c does not occur
Find(s, c, start) ==
  IF \E i \in start..Len(s) : s[i] = c
    THEN CHOOSE i \in start..Len(s) :
           s[i] = c /\ \A j \in start..(i - 1) : s[j] # c
    ELSE 0

----------------------------------------------------------------------------
(* urllib.parse.urlparse, as far as validate_video_url reads its result *)

\* urllib.parse.scheme_chars
scheme_chars ==
  Range(UpperLetters) \cup Range(LowerLetters) \cup Range(Digits) \cup {"+", "-", "."}

\* the scheme is url[:i] for the first ':' at i > 0, when url[0] is a letter
\* and url[:i] holds scheme characters only
HasScheme(url) ==
  LET i == Find(url, ":", 1)
  IN /\ i > 1
     /\ url[1] \in Range(UpperLetters) \cup Range(LowerLetters)
     /\ \A j \in 1..(i - 1) : url[j] \in scheme_chars

\* _splitnetloc(url, 2): the text between '//' and the first of '/', '?', '#'
splitnetloc(rest) ==
  LET ends == {i \in 3..Len(rest) : rest[i] \in {"/", "?", "#"}}
      delim == IF ends = {} THEN Len(rest) + 1
               ELSE CHOOSE i \in ends : \A j \in ends : i <= j
  IN SubSeq(rest, 3, delim - 1)

\* urlparse(url): raised is the ValueError("Invalid IPv6 URL") of urlsplit
urlparse(url) ==
  LET i == Find(url, ":", 1)
      scheme == IF HasScheme(url) THEN Lower(SubSeq(url, 1, i - 1)) ELSE <<>>
      rest == IF HasScheme(url) THEN SubSeq(url, i + 1, Len(url)) ELSE url
      netloc == IF Len(rest) >= 2 /\ SubSeq(rest, 1, 2) = <<"/", "/">>
                  THEN splitnetloc(rest) ELSE <<>>
      open == "[" \in Range(netloc)
      close == "]" \in Range(netloc)
  IN [scheme |-> scheme,
      netloc |-> netloc,
      raised |-> (open /\ ~close) \/ (close /\ ~open)]

----------------------------------------------------------------------------
(* State.validate_video_url and State.set_video_url *)

video_extensions ==
  << <<".", "m", "p", "4">>, <<".", "w", "e", "b", "m">>,
     <<".", "o", "g", "g">>, <<".", "m", "o", "v">> >>

ErrEmptyUrl == "Please enter a video URL"
ErrUrlFormat == "Invalid URL format"
ErrNotVideo == "URL must point to a video file (mp4, webm, ogg, mov)"
ErrUrlException == "Error validating URL: Invalid IPv6 URL"

\* any(url.lower().endswith(ext) for ext in video_extensions)
HasVideoExtension(url) ==
  \E k \in 1..Len(video_extensions) : EndsWith(Lower(url), video_extensions[k])

\* validate_video_url with the format check forgotten
validate_video_url_noformat(error, url) ==
  IF url = <<>> THEN [ok |-> FALSE, video_error |-> ErrEmptyUrl]
  ELSE IF urlparse(url).raised THEN [ok |-> FALSE, video_error |-> ErrUrlException]
  ELSE IF ~HasVideoExtension(url) THEN [ok |-> FALSE, video_error |-> ErrNotVideo]
  ELSE [ok |-> TRUE, video_error |-> error]

\* validate_video_url with the extension check ahead of the format check
validate_video_url_swapped(error, url) ==
  IF url = <<>> THEN [ok |-> FALSE, video_error |-> ErrEmptyUrl]
  ELSE IF urlparse(url).raised THEN [ok |-> FALSE, video_error |-> ErrUrlException]
  ELSE IF ~HasVideoExtension(url) THEN [ok |-> FALSE, video_error |-> ErrNotVideo]
  ELSE IF urlparse(url).scheme = <<>> \/ urlparse(url).netloc = <<>>
    THEN [ok |-> FALSE, video_error |-> ErrUrlFormat]
  ELSE [ok |-> TRUE, video_error |-> error]

\* validate_video_url(url): the returned bool and video_error as it leaves it,
\* error being video_error on entry
validate_video_url(error, url) ==
  IF url = <<>> THEN [ok |-> FALSE, video_error |-> ErrEmptyUrl]
  ELSE IF urlparse(url).raised THEN [ok |-> FALSE, video_error |-> ErrUrlException]
  ELSE IF urlparse(url).scheme = <<>> \/ urlparse(url).netloc = <<>>
    THEN [ok |-> FALSE, video_error |-> ErrUrlFormat]
  ELSE IF ~HasVideoExtension(url) THEN [ok |-> FALSE, video_error |-> ErrNotVideo]
  ELSE [ok |-> TRUE, video_error |-> error]

----------------------------------------------------------------------------
(* Values a progress payload can carry, and int(value) of State.set_fps *)

\* a float of n ticks
Float(n) == [tag |-> "float", n |-> n]
\* a str such as "abc"
StrValue == [tag |-> "str", n |-> 0]

WhiteSpace == {" "}

\* str.strip() as int() applies it
RECURSIVE LStrip(_)
LStrip(s) == IF s # <<>> /\ Head(s) \in WhiteSpace THEN LStrip(Tail(s)) ELSE s

RECURSIVE RStrip(_)
RStrip(s) ==
  IF s # <<>> /\ s[Len(s)] \in WhiteSpace THEN RStrip(SubSeq(s, 1, Len(s) - 1)) ELSE s

DigitValue(c) == (CHOOSE i \in 1..Len(Digits) : Digits[i] = c) - 1

\* the value of digits with '_' separators skipped
RECURSIVE DigitsValue(_, _)
DigitsValue(s, acc) ==
  IF s = <<>> THEN acc
  ELSE IF Head(s) = "_" THEN DigitsValue(Tail(s), acc)
  ELSE DigitsValue(Tail(s), 10 * acc + DigitValue(Head(s)))

\* int(value): ok is FALSE where int raises ValueError
ParseInt(value) ==
  LET s == RStrip(LStrip(value))
      signed == s # <<>> /\ Head(s) \in {"+", "-"}
      body == IF signed THEN Tail(s) ELSE s
      wellformed ==
        /\ body # <<>>
        /\ \A i \in 1..Len(body) : body[i] \in Range(Digits) \cup {"_"}
        /\ body[1] # "_" /\ body[Len(body)] # "_"
        /\ \A i \in 1..(Len(body) - 1) : ~(body[i] = "_" /\ body[i + 1] = "_")
      magnitude == DigitsValue(body, 0)
  IN IF ~wellformed THEN [ok |-> FALSE, val |-> 0]
     ELSE [ok |-> TRUE,
           val |-> IF signed /\ Head(s) = "-" THEN 0 - magnitude ELSE magnitude]

ErrFpsRange == "FPS must be greater than 0"
ErrFpsNumber == "FPS must be a valid number"
ErrProgressKey == "Error updating video progress: 'playedSeconds'"
ErrProgressType == "Error updating video progress: 'NoneType' object is not subscriptable"

----------------------------------------------------------------------------
(* The arguments the handlers are called with *)

UrlPrefixes ==
  { <<>>, <<"h", ":">>, <<"/", "/">>, <<"h", ":", "/", "/">>,
    <<"_", ":", "/", "/">> }

UrlMiddles ==
  { <<>>, <<"h">>, <<":">>, <<"[">>, <<"h", "/", "v">> }

UrlEndings ==
  { <<>>, <<".", "m", "p", "4">>, <<".", "w", "e", "b", "m">>,
    <<".", "o", "g", "g">>, <<".", "M", "o", "v">>, <<".", "m", "p", "3">> }

UrlInputs == {p \o m \o e : p \in UrlPrefixes, m \in UrlMiddles, e \in UrlEndings}

\* progress: a dict with or without the key "playedSeconds", or None
ProgressInputs ==
  {[shape |-> "dict", has |-> TRUE, val |-> v] :
      v \in {Float(n) : n \in (0 - MaxTicks)..MaxTicks} \cup {StrValue}}
  \cup {[shape |-> "dict", has |-> FALSE, val |-> StrValue],
        [shape |-> "none", has |-> FALSE, val |-> StrValue]}

FpsDigits == {"0", "3"}

RECURSIVE DigitStrings(_)
DigitStrings(n) ==
  IF n = 0 THEN {<<>>}
  ELSE DigitStrings(n - 1)
       \cup {Append(s, d) : s \in {t \in DigitStrings(n - 1) : Len(t) = n - 1},
                            d \in FpsDigits}

FpsInputs ==
  {sign \o s : sign \in {<<>>, <<"-">>, <<"+">>}, s \in DigitStrings(MaxDigits)}
  \cup { <<"a", "b", "c">>, <<"1", ".", "5">>, <<" ", "3", " ">>,
         <<"3", "_", "0">>, <<"3", "_">> }

NoProgress == [shape |-> "none", has |-> FALSE, val |-> StrValue]

\* the last call handled: its handler and its argument
Event(op, url, progress, value) ==
  [op |-> op, url |-> url, progress |-> progress, value |-> value]

----------------------------------------------------------------------------
(* The State class *)

DefaultFps == 60

\* the fields of the annotation form: the free text of the natural language
\* mode and the six fields of the structured mode
NaturalFields == {"natural_language_description"}

StructuredFields ==
  {"action_type", "action_description", "detected_apparatus",
   "detected_instruments", "detected_materials", "spatial_information"}

FormFields == NaturalFields \cup StructuredFields

EmptyForm == [f \in FormFields |-> ""]

Init ==
  /\ is_natural_language_mode = FALSE
  /\ form = EmptyForm
  /\ annotations = <<>>
  /\ video_url = <<>>
  /\ video_error = ""
  /\ current_time = Float(0)
  /\ fps = DefaultFps
  /\ event = Event("init", <<>>, NoProgress, <<>>)

\* validate_video_url as set_video_url calls it, video_error just cleared
Validation == [url \in UrlInputs |-> validate_video_url("", url)]

\* set_video_url that keeps the old URL when validation fails
set_video_url_keep(url) ==
  LET valid == Validation[url]
  IN /\ video_error' = valid.video_error
     /\ video_url' = IF valid.ok THEN url ELSE video_url
     /\ event' = Event("set_video_url", url, NoProgress, <<>>)
     /\ UNCHANGED <<current_time, fps>>
     /\ UNCHANGED form_vars

set_video_url(url) ==
  LET valid == Validation[url]
  IN /\ video_error' = valid.video_error
     /\ video_url' = IF valid.ok THEN url ELSE <<>>
     /\ event' = Event("set_video_url", url, NoProgress, <<>>)
     /\ UNCHANGED <<current_time, fps>>
     /\ UNCHANGED form_vars

\* update_progress that resets the position when the payload is unusable
update_progress_reset(progress) ==
  /\ IF progress.shape # "dict"
       THEN video_error' = ErrProgressType /\ current_time' = Float(0)
     ELSE IF ~progress.has
       THEN video_error' = ErrProgressKey /\ current_time' = Float(0)
     ELSE current_time' = progress.val /\ UNCHANGED video_error
  /\ event' = Event("update_progress", <<>>, progress, <<>>)
  /\ UNCHANGED <<video_url, fps>>
  /\ UNCHANGED form_vars

\* progress["playedSeconds"] raises TypeError on None and KeyError on a dict
\* without the key; any value found under the key is assigned as it is
update_progress(progress) ==
  /\ IF progress.shape # "dict"
       THEN video_error' = ErrProgressType /\ UNCHANGED current_time
     ELSE IF ~progress.has
       THEN video_error' = ErrProgressKey /\ UNCHANGED current_time
     ELSE current_time' = progress.val /\ UNCHANGED video_error
  /\ event' = Event("update_progress", <<>>, progress, <<>>)
  /\ UNCHANGED <<video_url, fps>>
  /\ UNCHANGED form_vars

\* int(value) for each text set_fps is called with
IntOf == [value \in FpsInputs |-> ParseInt(value)]

\* set_fps with the range check written fps < 0
set_fps_zero(value) ==
  LET parsed == IntOf[value]
  IN /\ IF ~parsed.ok
          THEN video_error' = ErrFpsNumber /\ UNCHANGED fps
        ELSE IF parsed.val < 0
          THEN video_error' = ErrFpsRange /\ UNCHANGED fps
        ELSE fps' = parsed.val /\ video_error' = ""
     /\ event' = Event("set_fps", <<>>, NoProgress, value)
     /\ UNCHANGED <<video_url, current_time>>
     /\ UNCHANGED form_vars

\* set_fps that leaves video_error alone on success
set_fps_keeperror(value) ==
  LET parsed == IntOf[value]
  IN /\ IF ~parsed.ok
          THEN video_error' = ErrFpsNumber /\ UNCHANGED fps
        ELSE IF parsed.val <= 0
          THEN video_error' = ErrFpsRange /\ UNCHANGED fps
        ELSE fps' = parsed.val /\ UNCHANGED video_error
     /\ event' = Event("set_fps", <<>>, NoProgress, value)
     /\ UNCHANGED <<video_url, current_time>>
     /\ UNCHANGED form_vars

set_fps(value) ==
  LET parsed == IntOf[value]
  IN /\ IF ~parsed.ok
          THEN video_error' = ErrFpsNumber /\ UNCHANGED fps
        ELSE IF parsed.val <= 0
          THEN video_error' = ErrFpsRange /\ UNCHANGED fps
        ELSE fps' = parsed.val /\ video_error' = ""
     /\ event' = Event("set_fps", <<>>, NoProgress, value)
     /\ UNCHANGED <<video_url, current_time>>
     /\ UNCHANGED form_vars

\* int(x) of a float x = num / den: truncation toward zero
Trunc(num, den) ==
  IF num >= 0 THEN num \div den ELSE 0 - ((0 - num) \div den)

\* the computed var current_frame: int(current_time * fps); int raises
\* ValueError on the repeated str that a str current_time gives
current_frame ==
  IF current_time.tag = "float"
    THEN [raised |-> FALSE, val |-> Trunc(current_time.n * fps, TicksPerSecond)]
    ELSE [raised |-> TRUE, val |-> 0]

Next ==
  \/ \E url \in UrlInputs : set_video_url(url)
  \/ \E progress \in ProgressInputs : update_progress(progress)
  \/ \E value \in FpsInputs : set_fps(value)

Spec == Init /\ [][Next]_vars

----------------------------------------------------------------------------
(* The annotation form: the handlers pages/index.py binds to the mode      *)
(* switch, the form fields and the buttons                                 *)

\* the texts typed into a form field
FormTexts == {"x"}

\* the structured fields typed into; the other ones stay empty
TypedStructuredFields == {"action_type", "action_description"}

FormEvent(op) == Event(op, <<>>, NoProgress, <<>>)

\* the fields of the form shape that is shown
ActiveFields == IF is_natural_language_mode THEN NaturalFields ELSE StructuredFields

\* the record add_annotations builds from the active form fields
AnnotationRecord ==
  [natural |-> is_natural_language_mode,
   fields |-> [f \in FormFields |-> IF f \in ActiveFields THEN form[f] ELSE ""]]

\* set_natural_language_description, set_action_type, ...: the setter of
\* one form field
set_form_field(field, text) ==
  /\ form' = [form EXCEPT ![field] = text]
  /\ event' = FormEvent("set_form_field")
  /\ UNCHANGED <<video_url, video_error, current_time, fps>>
  /\ UNCHANGED <<is_natural_language_mode, annotations>>

\* toggle_form_mode that also empties the form
toggle_form_mode_clear ==
  /\ is_natural_language_mode' = ~is_natural_language_mode
  /\ form' = EmptyForm
  /\ event' = FormEvent("toggle_form_mode")
  /\ UNCHANGED <<video_url, video_error, current_time, fps>>
  /\ UNCHANGED annotations

toggle_form_mode ==
  /\ is_natural_language_mode' = ~is_natural_language_mode
  /\ event' = FormEvent("toggle_form_mode")
  /\ UNCHANGED <<video_url, video_error, current_time, fps>>
  /\ UNCHANGED <<form, annotations>>

\* append the record of the active fields, then reset those fields
add_annotations ==
  /\ Len(annotations) < MaxAnnotations
  /\ annotations' = Append(annotations, AnnotationRecord)
  /\ form' = [f \in FormFields |-> IF f \in ActiveFields THEN "" ELSE form[f]]
  /\ event' = FormEvent("add_annotations")
  /\ UNCHANGED <<video_url, video_error, current_time, fps>>
  /\ UNCHANGED is_natural_language_mode

clear_form ==
  /\ form' = EmptyForm
  /\ event' = FormEvent("clear_form")
  /\ UNCHANGED <<video_url, video_error, current_time, fps>>
  /\ UNCHANGED <<is_natural_language_mode, annotations>>

\* remove_last_annotation that drops the oldest record
remove_last_annotation_oldest ==
  /\ annotations' = IF annotations = <<>> THEN <<>> ELSE Tail(annotations)
  /\ event' = FormEvent("remove_last_annotation")
  /\ UNCHANGED <<video_url, video_error, current_time, fps>>
  /\ UNCHANGED <<is_natural_language_mode, form>>

\* pop the last element of annotations; nothing to do on an empty list
remove_last_annotation ==
  /\ annotations' = IF annotations = <<>> THEN <<>>
                    ELSE SubSeq(annotations, 1, Len(annotations) - 1)
  /\ event' = FormEvent("remove_last_annotation")
  /\ UNCHANGED <<video_url, video_error, current_time, fps>>
  /\ UNCHANGED <<is_natural_language_mode, form>>

\* the arguments of the video handlers while the form is worked on
SessionUrls == { <<>>, <<"h", ":", "/", "/", "h", ".", "m", "p", "4">> }
SessionProgress == {[shape |-> "dict", has |-> TRUE, val |-> Float(1)]}
SessionFps == { <<"3">> }

SessionNext ==
  \/ \E url \in SessionUrls : set_video_url(url)
  \/ \E progress \in SessionProgress : update_progress(progress)
  \/ \E value \in SessionFps : set_fps(value)
  \/ \E field \in NaturalFields \cup TypedStructuredFields, text \in FormTexts :
       set_form_field(field, text)
  \/ toggle_form_mode
  \/ add_annotations
  \/ clear_form
  \/ remove_last_annotation

SpecSession == Init /\ [][SessionNext]_vars

----------------------------------------------------------------------------
(* Vocabulary of the properties *)

\* the host of a network location: what follows the last '@', up to the
\* first ':' (or between '[' and ']')
Host(netloc) ==
  LET ats == {i \in 1..Len(netloc) : netloc[i] = "@"}
      from == IF ats = {} THEN 1 ELSE (CHOOSE i \in ats : \A j \in ats : j <= i) + 1
      hostinfo == SubSeq(netloc, from, Len(netloc))
      open == Find(hostinfo, "[", 1)
      bracketed == SubSeq(hostinfo, open + 1, Len(hostinfo))
      close == Find(bracketed, "]", 1)
      colon == Find(hostinfo, ":", 1)
  IN IF open > 0
       THEN IF close > 0 THEN SubSeq(bracketed, 1, close - 1) ELSE bracketed
     ELSE IF colon > 0 THEN SubSeq(hostinfo, 1, colon - 1)
     ELSE hostinfo

Parsed == [url \in UrlInputs |-> urlparse(url)]

EndsInVideoExtension == [url \in UrlInputs |-> HasVideoExtension(url)]

\* the inputs on which a handler takes its error path
FailingUrl(url) ==
  \/ url = <<>>
  \/ Parsed[url].raised
  \/ Parsed[url].scheme = <<>>
  \/ Parsed[url].netloc = <<>>
  \/ ~EndsInVideoExtension[url]

FailingProgress(progress) == progress.shape # "dict" \/ ~progress.has

FailingFps(value) == ~IntOf[value].ok \/ IntOf[value].val <= 0

FailingCall(e) ==
  \/ e.op = "set_video_url" /\ FailingUrl(e.url)
  \/ e.op = "update_progress" /\ FailingProgress(e.progress)
  \/ e.op = "set_fps" /\ FailingFps(e.value)

\* a payload whose playedSeconds is a number
NumericProgress(progress) ==
  progress.shape = "dict" /\ progress.has /\ progress.val.tag = "float"

\* the inputs the specification calls valid
ValidCall(e) ==
  \/ e.op = "set_video_url" /\ ~FailingUrl(e.url)
  \/ e.op = "update_progress" /\ e.progress.shape = "dict" /\ e.progress.has
       /\ e.progress.val.tag = "float" /\ e.progress.val.n >= 0
  \/ e.op = "set_fps" /\ ~FailingFps(e.value)

----------------------------------------------------------------------------
(* C1 *)

\* C1 as stated: video_url is empty, or it has a non-empty scheme, a
\* non-empty host and a recognized video extension as case-insensitive suffix.
C1_UrlHasSchemeHostExtension ==
  \/ video_url = <<>>
  \/ /\ urlparse(video_url).scheme # <<>>
     /\ Host(urlparse(video_url).netloc) # <<>>
     /\ HasVideoExtension(video_url)

\* C1 as amended: video_url is empty, or it has a non-empty scheme, a
\* non-empty network location (the text between '//' and the next '/', '?'
\* or '#', whose host part may be empty) and a recognized video extension as
\* case-insensitive suffix.
C1_UrlHasSchemeNetlocExtension ==
  \/ video_url = <<>>
  \/ /\ urlparse(video_url).scheme # <<>>
     /\ urlparse(video_url).netloc # <<>>
     /\ \E ext \in Range(video_extensions) : EndsWith(Lower(video_url), ext)

C1_Witness ==
  /\ event.op = "update_progress"
  /\ video_url = <<"h", ":", "/", "/", "h", "/", "v", ".", "M", "o", "v">>

----------------------------------------------------------------------------
(* C2 *)

----------------------------------------------------------------------------
(* C3 *)

\* C3: after set_video_url with a string that does not end in a video
\* extension, video_url is empty and video_error is not, whatever the state
\* it was called in.
C3_NonVideoRejected ==
  [][(event'.op = "set_video_url" /\ ~EndsInVideoExtension[event'.url])
       => (video_url' = <<>> /\ video_error' # "")]_vars

\* a well-formed URL without video extension has been rejected
C3_Witness ==
  /\ event.op = "set_video_url"
  /\ event.url = <<"h", ":", "/", "/", "h", ".", "m", "p", "3">>
  /\ video_url = <<>>
  /\ video_error = ErrNotVideo

----------------------------------------------------------------------------
(* C4 *)

\* C4: fps is a strictly positive integer in every reachable state; set_fps
\* with a string that is no integer sets "FPS must be a valid number", with
\* an integer <= 0 sets "FPS must be greater than 0", and both leave fps as
\* it was.
C4_FpsPositive ==
  /\ [](fps \in Nat /\ fps > 0)
  /\ [][(event'.op = "set_fps" /\ ~IntOf[event'.value].ok)
          => (fps' = fps /\ video_error' = ErrFpsNumber)]_vars
  /\ [][(event'.op = "set_fps" /\ IntOf[event'.value].ok
           /\ IntOf[event'.value].val <= 0)
          => (fps' = fps /\ video_error' = ErrFpsRange)]_vars

\* set_fps("0") has been refused after another frame rate had been set
C4_Witness ==
  /\ event.op = "set_fps"
  /\ event.value = <<"0">>
  /\ fps = 3
  /\ video_error = ErrFpsRange

----------------------------------------------------------------------------
(* C5 *)

\* C5: when a call with a valid input follows a call of the same handler
\* that failed and set video_error, video_error is empty after the valid
\* call.
C5_ErrorClearedByValidInput ==
  [][(/\ FailingCall(event) /\ video_error # ""
      /\ event'.op = event.op
      /\ ValidCall(event'))
       => video_error' = ""]_vars

----------------------------------------------------------------------------
(* C6 *)

\* C6 as stated: a failing call leaves video_url, fps and current_time as
\* they were.
C6_FailureChangesNothing ==
  [][FailingCall(event')
       => (video_url' = video_url /\ fps' = fps /\ current_time' = current_time)]_vars

\* C6 as amended: a failing call sets an error message and leaves fps and
\* current_time as they were; a failing set_fps or update_progress leaves
\* video_url as it was, and a failing set_video_url resets video_url to the
\* empty string.
C6_FailureKeepsOtherFields ==
  [][FailingCall(event')
       => (/\ video_error' # ""
           /\ fps' = fps
           /\ current_time' = current_time
           /\ video_url' = IF event'.op = "set_video_url" THEN <<>> ELSE video_url)]_vars

\* a progress payload without playedSeconds has been absorbed while a URL
\* was loaded and the position was not the initial one
C6_Witness ==
  /\ event.op = "update_progress"
  /\ event.progress.shape = "dict" /\ ~event.progress.has
  /\ video_error = ErrProgressKey
  /\ video_url # <<>>
  /\ current_time = Float(1)

----------------------------------------------------------------------------
(* C7 *)

\* C7: in every reachable state where current_time is a number,
\* current_frame is floor(current_time * fps).
C7_FrameIsFloor ==
  current_time.tag = "float" =>
    /\ ~current_frame.raised
    /\ current_frame.val = (current_time.n * fps) \div TicksPerSecond

----------------------------------------------------------------------------
(* C8 *)

\* C8: update_progress with a numeric playedSeconds sets current_time to it;
\* with a missing or non-numeric playedSeconds it sets a non-empty
\* video_error and keeps current_time.
C8_ProgressAbsorbed ==
  [][event'.op = "update_progress" =>
       IF NumericProgress(event'.progress)
         THEN current_time' = event'.progress.val
         ELSE video_error' # "" /\ current_time' = current_time]_vars

----------------------------------------------------------------------------
(* C9 *)

\* C9: current_time is >= 0 in every reachable state, and so current_frame
\* is never negative.
C9_TimeNonNegative ==
  current_time.tag = "float" => (current_time.n >= 0 /\ current_frame.val >= 0)

----------------------------------------------------------------------------
(* C10 *)

\* C10: set_fps with a string that parses to an integer > 0 sets fps to that
\* integer and empties video_error, whatever video_error held before.
C10_FpsAccepted ==
  [][(event'.op = "set_fps" /\ IntOf[event'.value].ok
        /\ IntOf[event'.value].val > 0)
       => (fps' = IntOf[event'.value].val /\ video_error' = "")]_vars

\* set_fps("3_0") has set 30 frames per second and left no error
C10_Witness ==
  /\ event.op = "set_fps"
  /\ event.value = <<"3", "_", "0">>
  /\ fps = 30
  /\ video_error = ""

----------------------------------------------------------------------------
(* C11 *)

\* C11: remove_last_annotation removes exactly the most recently appended
\* record of a non-empty list, and on an empty list it leaves the list empty
\* and sets no error; it changes nothing else.
C11_RemoveLast ==
  [][event'.op = "remove_last_annotation" =>
       /\ IF annotations = <<>>
            THEN annotations' = <<>>
            ELSE /\ Len(annotations') = Len(annotations) - 1
                 /\ \A i \in 1..Len(annotations') : annotations'[i] = annotations[i]
       /\ video_error' = video_error
       /\ UNCHANGED <<video_url, current_time, fps, is_natural_language_mode, form>>]_vars

\* the second of two different records has been removed, the first is left
C11_Witness ==
  /\ event.op = "remove_last_annotation"
  /\ Len(annotations) = 1
  /\ annotations[1].natural
  /\ annotations[1].fields["natural_language_description"] = "x"

----------------------------------------------------------------------------
(* C12 *)

\* C12: is_natural_language_mode is a boolean that every toggle negates, so
\* that two toggles return it to its value, and a toggle leaves video_url,
\* video_error, current_time, fps, the form inputs and the annotations
\* unchanged.
C12_ToggleFlipsModeOnly ==
  /\ [](is_natural_language_mode \in BOOLEAN)
  /\ [][event'.op = "toggle_form_mode" =>
          /\ is_natural_language_mode' = ~is_natural_language_mode
          /\ UNCHANGED <<video_url, video_error, current_time, fps,
                         form, annotations>>]_vars

\* toggled back to the structured mode, with a loaded URL, a filled form
\* field and a recorded annotation
C12_Witness ==
  /\ event.op = "toggle_form_mode"
  /\ ~is_natural_language_mode
  /\ video_url # <<>>
  /\ form["action_type"] = "x"
  /\ annotations # <<>>

====
